---- MODULE Spec2Model ----
(***************************************************************************)
(* Model of the dialects parsing engine (src/dialects.go): Parse, findOne, *)
(* findMany, findConstituents and findConstituentseq, run as a call-stack  *)
(* machine over the shared cursor, log and model of one Parser.            *)
(*                                                                         *)
(* Go strings are sequences of one-character strings, so that slicing      *)
(* (constituentID[len-1:], input[pos:]) and len() are computed as the code *)
(* computes them.  A nil or empty slice is the empty sequence.             *)
(***************************************************************************)
EXTENDS Integers, Sequences, FiniteSets, TLC

\* ------------------------------------------------------------------ bounds
\* Longest input string explored.
MaxLen == 3

\* Cap on the parts one findMany call collects; larger than any list a
\* terminating loop can build on an input of MaxLen characters, so only a
\* diverging loop ever meets it.
MaxMany == MaxLen + 2

Alphabet == {"a", "b", "\n"}

Inputs == UNION {[1..n -> Alphabet] : n \in 0..MaxLen}

Nil == <<>>

Min(S) == CHOOSE x \in S : \A y \in S : x <= y

\* strings.Count(s, "\n")
RECURSIVE CountNewlines(_)
CountNewlines(s) ==
    IF s = <<>> THEN 0
    ELSE (IF Head(s) = "\n" THEN 1 ELSE 0) + CountNewlines(Tail(s))

\* --------------------------------------------------------------- regexp
\* The patterns the dialects below use: an optional "^", one atom (a
\* literal character or \s) and an optional "+" or "*".
Whitespace == {"\n"}

\* regexp.MustCompile: the pattern text parsed into a matcher.
MustCompile(regex) ==
    LET anchored == regex[1] = "^"
        body     == IF anchored THEN Tail(regex) ELSE regex
        escaped  == body[1] = "\\"
        class    == IF escaped
                    THEN (IF body[2] = "s" THEN Whitespace ELSE {body[2]})
                    ELSE {body[1]}
        quant    == IF escaped THEN Tail(Tail(body)) ELSE Tail(body)
    IN  [anchored |-> anchored,
         class    |-> class,
         min      |-> IF quant = <<"*">> THEN 0 ELSE 1,
         repeat   |-> quant # <<>>]

\* Length of the greedy match of the compiled pattern starting at s[i].
MatchLen(re, s, i) ==
    LET stops == {j \in i..Len(s) : s[j] \notin re.class}
        run   == IF stops = {} THEN Len(s) - i + 1 ELSE Min(stops) - i
    IN  IF re.repeat THEN run ELSE IF run > 1 THEN 1 ELSE run

\* (*Regexp).FindStringSubmatch: the leftmost match in s, as the slice of
\* submatches (only matches[0], the whole match), or nil when there is none.
FindStringSubmatch(re, s) ==
    LET starts == IF re.anchored THEN {1} ELSE 1..(Len(s) + 1)
        found  == {i \in starts : MatchLen(re, s, i) >= re.min}
    IN  IF found = {} THEN Nil
        ELSE LET i == Min(found)
             IN  <<SubSeq(s, i, i + MatchLen(re, s, i) - 1)>>

\* ------------------------------------------------------ grammar callbacks
\* PartDefinition.ValidateMatch: the validators the dialects below attach.
\*   "short" accepts matches of at most one character, with a message;
\*   "never" rejects every match and gives no message.
ValidateMatch(validator, matches) ==
    CASE validator = "short" -> [isValid |-> Len(matches[1]) <= 1, errMsg |-> "too long"]
      [] validator = "never" -> [isValid |-> FALSE, errMsg |-> ""]
      [] OTHER               -> [isValid |-> TRUE, errMsg |-> ""]

\* PartDefinition.FormatMatch: "tag" puts a "#" before the matched text.
FormatMatch(formatter, matches) ==
    IF formatter = "tag" THEN <<"#">> \o matches[1] ELSE matches[1]

\* PartDefinition.Handler: "accept" records the part in the model and
\* returns true; "veto" returns false and leaves the model alone.
Handler(handler, part, m) ==
    IF handler = "accept"
    THEN [ok |-> TRUE, model |-> Append(m, [Name |-> part.Name, StartPos |-> part.StartPos])]
    ELSE [ok |-> FALSE, model |-> m]

\* Dialectable.GenerateOutput: renders the names the handlers recorded.
GenerateOutput(m) == [i \in 1..Len(m) |-> m[i].Name]

\* The errors GenerateOutput may return (nil, or a failure of the render).
GenerateErrors == {<<>>, <<"render error">>}

\* -------------------------------------------------------------- grammar
NonTerminal(ignore, constituents, handler) ==
    [Ignore |-> ignore, Constituents |-> constituents, Handler |-> handler,
     Regex |-> <<>>, ValidateMatch |-> "nil", FormatMatch |-> "nil"]

Terminal(ignore, regex, validator, formatter) ==
    [Ignore |-> ignore, Constituents |-> <<>>, Handler |-> "nil",
     Regex |-> regex, ValidateMatch |-> validator, FormatMatch |-> formatter]

\* The zero value a Go map lookup yields for a name that is not defined.
ZeroPartDefinition == NonTerminal(FALSE, <<>>, "nil")

TermA  == Terminal(FALSE, <<"^", "a">>, "nil", "nil")
TermB  == Terminal(FALSE, <<"^", "b">>, "nil", "nil")
TermWs == Terminal(TRUE, <<"^", "\\", "s", "+">>, "nil", "nil")

\* Overlapping alternatives, the first of which consume input and then fail.
ChoiceDialect ==
    [Title |-> "choice", RootName |-> <<"r">>,
     PartDefinitions |->
        (<<"r">> :> NonTerminal(FALSE, << <<<<"p", "+">>>> >>, "accept"))
     @@ (<<"p">> :> NonTerminal(FALSE,
            << <<<<"a">>, <<"a">>, <<"b">>>>, <<<<"a">>, <<"b">>>>, <<<<"a">>>> >>, "accept"))
     @@ (<<"a">> :> TermA) @@ (<<"b">> :> TermB)]

\* Every quantifier, an ignored whitespace rule and a name with no definition.
QuantDialect ==
    [Title |-> "quant", RootName |-> <<"r">>,
     PartDefinitions |->
        (<<"r">> :> NonTerminal(FALSE,
            << <<<<"w", "*">>, <<"a", "?">>>>,
               <<<<"w">>, <<"b", "*">>>>,
               <<<<"b", "+">>, <<"z">>>>,
               <<<<"a", "+">>, <<"w", "?">>, <<"b">>>> >>, "accept"))
     @@ (<<"w">> :> TermWs) @@ (<<"a">> :> TermA) @@ (<<"b">> :> TermB)]

\* A non-terminal whose handler vetoes, referenced with each quantifier.
VetoDialect ==
    [Title |-> "veto", RootName |-> <<"r">>,
     PartDefinitions |->
        (<<"r">> :> NonTerminal(FALSE,
            << <<<<"v", "?">>, <<"a">>, <<"b">>>>,
               <<<<"v", "*">>, <<"b">>, <<"a">>>>,
               <<<<"v", "+">>, <<"a">>>>,
               <<<<"v">>, <<"b">>>>,
               <<<<"b">>>> >>, "accept"))
     @@ (<<"v">> :> NonTerminal(FALSE, << <<<<"a">>>> >>, "veto"))
     @@ (<<"a">> :> TermA) @@ (<<"b">> :> TermB)]

\* Validated terminals, reached through five and six nested sequences and
\* directly from the root.
DeepDialect ==
    [Title |-> "deep", RootName |-> <<"r">>,
     PartDefinitions |->
        (<<"r">> :> NonTerminal(FALSE,
            << <<<<"c">>>>, <<<<"n">>, <<"b">>>>, <<<<"k">>>> >>, "nil"))
     @@ (<<"c">> :> NonTerminal(FALSE, << <<<<"d">>>> >>, "nil"))
     @@ (<<"d">> :> NonTerminal(FALSE, << <<<<"e">>>> >>, "nil"))
     @@ (<<"e">> :> NonTerminal(FALSE, << <<<<"f">>>> >>, "nil"))
     @@ (<<"f">> :> NonTerminal(FALSE, << <<<<"n">>>>, <<<<"g">>>> >>, "nil"))
     @@ (<<"g">> :> NonTerminal(FALSE, << <<<<"k">>>> >>, "nil"))
     @@ (<<"n">> :> Terminal(FALSE, <<"^", "a", "+">>, "short", "nil"))
     @@ (<<"k">> :> Terminal(FALSE, <<"^", "b", "+">>, "never", "nil"))
     @@ (<<"b">> :> TermB)]

\* Terminals whose patterns match the empty string, alone and under * and +.
EmptyDialect ==
    [Title |-> "empty", RootName |-> <<"r">>,
     PartDefinitions |->
        (<<"r">> :> NonTerminal(FALSE,
            << <<<<"e">>, <<"b">>, <<"y", "*">>>>, <<<<"y", "+">>, <<"b", "?">>>> >>,
            "accept"))
     @@ (<<"e">> :> Terminal(FALSE, <<"^", "\\", "s", "*">>, "nil", "nil"))
     @@ (<<"y">> :> Terminal(FALSE, <<"^", "a", "*">>, "nil", "tag"))
     @@ (<<"b">> :> TermB)]

\* Handlers on a non-terminal that an abandoned alternative also matches, and
\* on a terminal.
HandlerDialect ==
    [Title |-> "handler", RootName |-> <<"r">>,
     PartDefinitions |->
        (<<"r">> :> NonTerminal(FALSE,
            << <<<<"x">>, <<"b">>>>, <<<<"x">>, <<"t", "+">>>> >>, "accept"))
     @@ (<<"x">> :> NonTerminal(FALSE, << <<<<"a">>>> >>, "accept"))
     @@ (<<"t">> :> [Terminal(FALSE, <<"^", "a">>, "nil", "nil") EXCEPT !.Handler = "accept"])
     @@ (<<"a">> :> TermA) @@ (<<"b">> :> TermB)]

\* Terminals whose patterns do not begin with "^".
AnchorDialect ==
    [Title |-> "anchor", RootName |-> <<"r">>,
     PartDefinitions |->
        (<<"r">> :> NonTerminal(FALSE,
            << <<<<"u">>, <<"a", "?">>>>, <<<<"s">>, <<"a">>>>, <<<<"a", "+">>>> >>, "accept"))
     @@ (<<"u">> :> Terminal(FALSE, <<"b">>, "nil", "nil"))
     @@ (<<"s">> :> Terminal(FALSE, <<"\\", "s">>, "nil", "nil"))
     @@ (<<"a">> :> TermA)]

Dialects == {ChoiceDialect, QuantDialect, VetoDialect, DeepDialect, EmptyDialect,
             HandlerDialect, AnchorDialect}

\* len(indent) of the Log that Parse constructs: "| | | | ".
IndentInit == 8

\* ---------------------------------------------------------------- state
VARIABLES
    dialect,          \* parser.dialect, from dialectable.NewDialect()
    input,            \* parser.input
    currentPos,       \* *parser.currentPosPointer, the shared cursor
    model,            \* parser.model, from dialectable.NewModel()
    compiledRegexes,  \* parser.compiledRegexes
    log,              \* *parser.log: buffer, len(indent), indentLevel, currentLine
    stack,            \* the Go call stack below Parse, innermost frame last
    ret,              \* the slice the last call returned
    phase,            \* "parsing", "returned" (Parse returned) or "panicked"
    output,           \* Parse's first result
    err,              \* Parse's second result (<<>> is nil)
    logOut,           \* Parse's third result, the log text
    generated,        \* the calls of GenerateOutput: model passed, results returned
    event,            \* history: what the step just taken did
    self,             \* the call of Parse the variables above belong to
    suspended,        \* the state of the other running call of Parse, or Nil
    alone             \* what the call returned when it ran alone, or Nil

vars == <<dialect, input, currentPos, model, compiledRegexes, log, stack, ret,
          phase, output, err, logOut, generated, event, self, suspended, alone>>

\* parser.dialect.PartDefinitions[partName]
PartDefinition(partName) ==
    IF partName \in DOMAIN dialect.PartDefinitions
    THEN dialect.PartDefinitions[partName]
    ELSE ZeroPartDefinition

\* What a *Part pointing at part refers to: the Part of that name started at
\* that position (a nil pointer is Nil).
PartRef(part) == <<part.Name, part.StartPos>>

\* &Part{Name: partName, Ignore: partDefinition.Ignore}, StartPos set to the cursor.
\* Parent is left at its zero value, nil.
NewPart(partName, ignore, pos) ==
    [Name |-> partName, StartPos |-> pos, EndPos |-> 0, Ignore |-> ignore,
     Parent |-> Nil, Value |-> <<>>, Constituents |-> <<>>]

\* ------------------------------------------------------------ stack frames
\* The fields entryLine, maxAdv, firstFound, ignored, ignEnd and entryLevel are history
\* kept for the properties; the code has no such variables.
FindOneFrame(partName) ==
    [fn |-> "findOne", pc |-> "entry", partName |-> partName,
     part |-> NewPart(partName, FALSE, 0), entryLine |-> 0]

FindManyFrame(partName) ==
    [fn |-> "findMany", pc |-> "loop", partName |-> partName, manyParts |-> Nil]

FindConstituentsFrame(Constituents) ==
    [fn |-> "findConstituents", pc |-> "loop", Constituents |-> Constituents,
     tempPos |-> currentPos, tempCurrentLine |-> log.currentLine, i |-> 1,
     maxAdv |-> 0, firstFound |-> 0]

FindConstituentseqFrame(Constituentseq) ==
    [fn |-> "findConstituentseq", pc |-> "entry", Constituentseq |-> Constituentseq,
     k |-> 1, Constituents |-> Nil, ignored |-> FALSE, ignEnd |-> 0,
     entryLevel |-> log.indentLevel]

Top == stack[Len(stack)]

Popped == SubSeq(stack, 1, Len(stack) - 1)

\* The running function's frame becomes f and it calls into frame g.
Call(f, g) == Append([stack EXCEPT ![Len(stack)] = f], g)

\* The running function's frame becomes f.
Goto(f) == [stack EXCEPT ![Len(stack)] = f]

Running(fn, pc) ==
    /\ phase = "parsing"
    /\ stack # <<>>
    /\ Top.fn = fn
    /\ Top.pc = pc

\* ------------------------------------------------------- history records
Ev(op, why, name, pos, line) ==
    [op |-> op, why |-> why, name |-> name, entryPos |-> pos, entryLine |-> line,
     adv |-> 0, found |-> FALSE, alt |-> 0, firstFound |-> 0,
     ignored |-> FALSE, ignEnd |-> 0, called |-> 0, text |-> <<>>, level |-> 0]

\* ------------------------------------------------------------------- log
\* parser.log.indent[:parser.log.indentLevel] is in range.
SliceOk(l) == l.indentLevel >= 0 /\ l.indentLevel <= l.indent

\* parser.log.buffer.WriteString(indent[:indentLevel] + text)
WriteString(l, text) ==
    [l EXCEPT !.buffer = Append(@, [indent |-> l.indentLevel, text |-> text])]

Init ==
    /\ dialect \in Dialects
    /\ input \in Inputs
    /\ currentPos = 0
    /\ model = <<>>
    /\ compiledRegexes = <<>>
    /\ log = [buffer |-> <<>>, indent |-> IndentInit, indentLevel |-> 0, currentLine |-> 1]
    /\ stack = <<FindOneFrame(dialect.RootName)>>
    /\ ret = Nil
    /\ phase = "parsing"
    /\ output = <<>>
    /\ err = <<>>
    /\ logOut = <<>>
    /\ generated = <<>>
    /\ event = Ev("Parse", "call", dialect.RootName, 0, 1)
    /\ self = "alone"
    /\ suspended = Nil
    /\ alone = Nil

\* Return from the running function with the slice parts.
Return(parts, ev) ==
    /\ stack' = Popped
    /\ ret' = parts
    /\ event' = ev

\* ---------------------------------------------------------------- findOne
\* The early exit of findOne: the cursor is one short of len(input).
FindOneAtEnd ==
    /\ Running("findOne", "entry")
    /\ Len(input) = currentPos + 1
    /\ Return(Nil, Ev("findOne", "atEnd", Top.partName, currentPos, log.currentLine))
    /\ UNCHANGED <<dialect, input, currentPos, model, compiledRegexes, log, phase,
                   output, err, logOut, generated>>

\* A definition with Constituents: findOne calls findConstituents.
FindOneConstituents ==
    /\ Running("findOne", "entry")
    /\ Len(input) # currentPos + 1
    /\ LET partName       == Top.partName
           partDefinition == PartDefinition(partName)
           part           == NewPart(partName, partDefinition.Ignore, currentPos)
       IN  /\ Len(partDefinition.Constituents) > 0
           /\ stack' = Call([Top EXCEPT !.pc = "handle", !.part = part,
                                        !.entryLine = log.currentLine],
                            FindConstituentsFrame(partDefinition.Constituents))
           /\ event' = Ev("findOne", "attempt", partName, currentPos, log.currentLine)
    /\ UNCHANGED <<dialect, input, currentPos, model, compiledRegexes, log, ret,
                   phase, output, err, logOut, generated>>

\* FindOneHandle returning the part without calling its Handler (lines
\* 113-118 dropped).
FindOneHandleSkipsHandler ==
    /\ Running("findOne", "handle")
    /\ LET partDefinition == PartDefinition(Top.partName)
           part           == [Top.part EXCEPT !.Constituents = ret]
           handled        == Handler(partDefinition.Handler, part, model)
           ev(why)        == [Ev("findOne", why, Top.partName, part.StartPos, Top.entryLine)
                                 EXCEPT !.adv = event.adv, !.ignored = event.ignored,
                                        !.called = IF why # "noConstituents"
                                                      /\ partDefinition.Handler # "nil"
                                                   THEN 1 ELSE 0]
       IN  IF Len(part.Constituents) < 1
           THEN /\ Return(Nil, ev("noConstituents"))
                /\ model' = model
           ELSE /\ Return(<<[part EXCEPT !.EndPos = currentPos]>>, ev("found"))
                /\ model' = model
    /\ UNCHANGED <<dialect, input, currentPos, compiledRegexes, log, phase, output,
                   err, logOut, generated>>

\* findConstituents has returned into findOne: no constituents, the Handler,
\* and the part returned.
FindOneHandle ==
    /\ Running("findOne", "handle")
    /\ LET partDefinition == PartDefinition(Top.partName)
           part           == [Top.part EXCEPT !.Constituents = ret]
           handled        == Handler(partDefinition.Handler, part, model)
           ev(why)        == [Ev("findOne", why, Top.partName, part.StartPos, Top.entryLine)
                                 EXCEPT !.adv = event.adv, !.ignored = event.ignored,
                                        !.called = IF why # "noConstituents"
                                                      /\ partDefinition.Handler # "nil"
                                                   THEN 1 ELSE 0]
       IN  IF Len(part.Constituents) < 1
           THEN /\ Return(Nil, ev("noConstituents"))
                /\ model' = model
           ELSE IF partDefinition.Handler # "nil" /\ ~handled.ok
           THEN /\ Return(Nil, ev("veto"))
                /\ model' = handled.model
           ELSE /\ Return(<<[part EXCEPT !.EndPos = currentPos]>>, ev("found"))
                /\ model' = IF partDefinition.Handler # "nil" THEN handled.model ELSE model
    /\ UNCHANGED <<dialect, input, currentPos, compiledRegexes, log, phase, output,
                   err, logOut, generated>>

\* FindOneRegex leaving the cursor where it was (line 164 dropped).
FindOneRegexNoAdvance ==
    /\ Running("findOne", "entry")
    /\ Len(input) # currentPos + 1
    /\ LET partName       == Top.partName
           partDefinition == PartDefinition(partName)
           part           == NewPart(partName, partDefinition.Ignore, currentPos)
           saved          == partName \in DOMAIN compiledRegexes
           compiledRegex  == IF saved THEN compiledRegexes[partName]
                             ELSE MustCompile(partDefinition.Regex)
           matches        == FindStringSubmatch(compiledRegex,
                                                SubSeq(input, currentPos + 1, Len(input)))
           valid          == ValidateMatch(partDefinition.ValidateMatch, matches)
           value          == IF partDefinition.FormatMatch # "nil"
                             THEN FormatMatch(partDefinition.FormatMatch, matches)
                             ELSE matches[1]
           endPos         == currentPos + Len(matches[1])
           ev(why)        == Ev("findOne", why, partName, currentPos, log.currentLine)
       IN  /\ Len(partDefinition.Constituents) = 0
           /\ partDefinition.Regex # <<>>
           /\ compiledRegexes' = IF saved THEN compiledRegexes
                                 ELSE (partName :> compiledRegex) @@ compiledRegexes
           /\ IF Len(matches) < 1
              THEN /\ Return(Nil, ev("noMatch"))
                   /\ UNCHANGED <<currentPos, log, phase>>
              ELSE IF partDefinition.ValidateMatch # "nil" /\ ~valid.isValid
              THEN IF SliceOk(log)
                   THEN /\ log' = WriteString(log, <<"invalid", partName, log.currentLine,
                                                     valid.errMsg>>)
                        /\ Return(Nil, ev("invalid"))
                        /\ UNCHANGED <<currentPos, phase>>
                   ELSE /\ phase' = "panicked"
                        /\ event' = ev("invalid")
                        /\ UNCHANGED <<currentPos, log, stack, ret>>
              ELSE /\ currentPos' = currentPos
                   /\ log' = [log EXCEPT !.currentLine = @ + CountNewlines(matches[1])]
                   /\ Return(<<[part EXCEPT !.Value = value, !.EndPos = endPos]>>,
                             [ev("matched") EXCEPT !.text = matches[1]])
                   /\ phase' = phase
    /\ UNCHANGED <<dialect, input, model, output, err, logOut, generated>>

\* A definition with a Regex and no Constituents: compile, match, validate,
\* format and advance the cursor.
FindOneRegex ==
    /\ Running("findOne", "entry")
    /\ Len(input) # currentPos + 1
    /\ LET partName       == Top.partName
           partDefinition == PartDefinition(partName)
           part           == NewPart(partName, partDefinition.Ignore, currentPos)
           saved          == partName \in DOMAIN compiledRegexes
           compiledRegex  == IF saved THEN compiledRegexes[partName]
                             ELSE MustCompile(partDefinition.Regex)
           matches        == FindStringSubmatch(compiledRegex,
                                                SubSeq(input, currentPos + 1, Len(input)))
           valid          == ValidateMatch(partDefinition.ValidateMatch, matches)
           value          == IF partDefinition.FormatMatch # "nil"
                             THEN FormatMatch(partDefinition.FormatMatch, matches)
                             ELSE matches[1]
           endPos         == currentPos + Len(matches[1])
           ev(why)        == Ev("findOne", why, partName, currentPos, log.currentLine)
       IN  /\ Len(partDefinition.Constituents) = 0
           /\ partDefinition.Regex # <<>>
           /\ compiledRegexes' = IF saved THEN compiledRegexes
                                 ELSE (partName :> compiledRegex) @@ compiledRegexes
           /\ IF Len(matches) < 1
              THEN /\ Return(Nil, ev("noMatch"))
                   /\ UNCHANGED <<currentPos, log, phase>>
              ELSE IF partDefinition.ValidateMatch # "nil" /\ ~valid.isValid
              THEN IF SliceOk(log)
                   THEN /\ log' = WriteString(log, <<"invalid", partName, log.currentLine,
                                                     valid.errMsg>>)
                        /\ Return(Nil, ev("invalid"))
                        /\ UNCHANGED <<currentPos, phase>>
                   ELSE /\ phase' = "panicked"
                        /\ event' = ev("invalid")
                        /\ UNCHANGED <<currentPos, log, stack, ret>>
              ELSE /\ currentPos' = endPos
                   /\ log' = [log EXCEPT !.currentLine = @ + CountNewlines(matches[1])]
                   /\ Return(<<[part EXCEPT !.Value = value, !.EndPos = endPos]>>,
                             [ev("matched") EXCEPT !.text = matches[1]])
                   /\ phase' = phase
    /\ UNCHANGED <<dialect, input, model, output, err, logOut, generated>>

\* A definition with neither Constituents nor Regex.
FindOneNeither ==
    /\ Running("findOne", "entry")
    /\ Len(input) # currentPos + 1
    /\ LET partDefinition == PartDefinition(Top.partName)
       IN  /\ Len(partDefinition.Constituents) = 0
           /\ partDefinition.Regex = <<>>
    /\ Return(Nil, Ev("findOne", "undefined", Top.partName, currentPos, log.currentLine))
    /\ UNCHANGED <<dialect, input, currentPos, model, compiledRegexes, log, phase,
                   output, err, logOut, generated>>

\* --------------------------------------------------------------- findMany
\* One turn of findMany's loop: call findOne.
FindManyLoop ==
    /\ Running("findMany", "loop")
    /\ stack' = Call([Top EXCEPT !.pc = "result"], FindOneFrame(Top.partName))
    /\ event' = Ev("findMany", "call", Top.partName, currentPos, log.currentLine)
    /\ UNCHANGED <<dialect, input, currentPos, model, compiledRegexes, log, ret,
                   phase, output, err, logOut, generated>>

\* findOne has returned into findMany: collect and go on, or stop.
FindManyResult ==
    /\ Running("findMany", "result")
    /\ LET parts == ret
       IN  IF Len(parts) > 0
           THEN /\ Len(Top.manyParts) < MaxMany
                /\ stack' = Goto([Top EXCEPT !.manyParts = @ \o parts, !.pc = "loop"])
                /\ ret' = ret
                /\ event' = Ev("findMany", "more", Top.partName, currentPos, log.currentLine)
           ELSE Return(Top.manyParts,
                       Ev("findMany", "return", Top.partName, currentPos, log.currentLine))
    /\ UNCHANGED <<dialect, input, currentPos, model, compiledRegexes, log, phase,
                   output, err, logOut, generated>>

\* ------------------------------------------------------- findConstituents
\* The range loop of findConstituents: try the next sequence, or return nil
\* when none is left.
FindConstituentsNext ==
    /\ Running("findConstituents", "loop")
    /\ IF Top.i > Len(Top.Constituents)
       THEN Return(Nil, [Ev("findConstituents", "exhausted", <<>>, Top.tempPos,
                            Top.tempCurrentLine)
                           EXCEPT !.adv = Top.maxAdv, !.firstFound = Top.firstFound])
       ELSE /\ stack' = Call([Top EXCEPT !.pc = "result"],
                             FindConstituentseqFrame(Top.Constituents[Top.i]))
            /\ ret' = ret
            /\ event' = [Ev("findConstituents", "try", <<>>, Top.tempPos,
                            Top.tempCurrentLine)
                           EXCEPT !.alt = Top.i, !.firstFound = Top.firstFound,
                                  !.adv = Top.maxAdv]
    /\ UNCHANGED <<dialect, input, currentPos, model, compiledRegexes, log, phase,
                   output, err, logOut, generated>>

\* FindConstituentsResult without the reset of the position (line 206 dropped).
FindConstituentsResultNoReset ==
    /\ Running("findConstituents", "result")
    /\ LET parts   == ret
           adv     == currentPos - Top.tempPos
           ev(why) == [Ev("findConstituents", why, <<>>, Top.tempPos,
                          Top.tempCurrentLine)
                         EXCEPT !.alt = Top.i, !.found = event.found, !.adv = adv]
       IN  IF Len(parts) > 0
           THEN /\ Return(parts, ev("accepted"))
                /\ UNCHANGED <<currentPos, log>>
           ELSE /\ currentPos' = currentPos
                /\ log' = [log EXCEPT !.currentLine = Top.tempCurrentLine]
                /\ stack' = Goto([Top EXCEPT !.i = @ + 1, !.pc = "loop",
                                             !.maxAdv = IF adv > @ THEN adv ELSE @])
                /\ ret' = ret
                /\ event' = ev("rejected")
    /\ UNCHANGED <<dialect, input, model, compiledRegexes, phase, output, err, logOut,
                   generated>>

\* FindConstituentsResult without the reset of the line (line 207 dropped).
FindConstituentsResultNoLineReset ==
    /\ Running("findConstituents", "result")
    /\ LET parts   == ret
           adv     == currentPos - Top.tempPos
           ev(why) == [Ev("findConstituents", why, <<>>, Top.tempPos,
                          Top.tempCurrentLine)
                         EXCEPT !.alt = Top.i, !.found = event.found, !.adv = adv]
       IN  IF Len(parts) > 0
           THEN /\ Return(parts, ev("accepted"))
                /\ UNCHANGED <<currentPos, log>>
           ELSE /\ currentPos' = Top.tempPos
                /\ log' = log
                /\ stack' = Goto([Top EXCEPT !.i = @ + 1, !.pc = "loop",
                                             !.maxAdv = IF adv > @ THEN adv ELSE @])
                /\ ret' = ret
                /\ event' = ev("rejected")
    /\ UNCHANGED <<dialect, input, model, compiledRegexes, phase, output, err, logOut,
                   generated>>

\* findConstituentseq has returned into findConstituents: return its parts,
\* or reset the position and the line and go on to the next sequence.
FindConstituentsResult ==
    /\ Running("findConstituents", "result")
    /\ LET parts      == ret
           adv        == currentPos - Top.tempPos
           firstFound == IF Top.firstFound = 0 /\ event.found THEN Top.i
                         ELSE Top.firstFound
           ev(why)    == [Ev("findConstituents", why, <<>>, Top.tempPos,
                             Top.tempCurrentLine)
                            EXCEPT !.alt = Top.i, !.found = event.found, !.adv = adv,
                                   !.firstFound = firstFound,
                                   !.ignored = event.ignored, !.ignEnd = event.ignEnd]
       IN  IF Len(parts) > 0
           THEN /\ Return(parts, ev("accepted"))
                /\ UNCHANGED <<currentPos, log>>
           ELSE /\ currentPos' = Top.tempPos
                /\ log' = [log EXCEPT !.currentLine = Top.tempCurrentLine]
                /\ stack' = Goto([Top EXCEPT !.i = @ + 1, !.pc = "loop",
                                             !.firstFound = firstFound,
                                             !.maxAdv = IF adv > @ THEN adv ELSE @])
                /\ ret' = ret
                /\ event' = ev("rejected")
    /\ UNCHANGED <<dialect, input, model, compiledRegexes, phase, output, err, logOut,
                   generated>>

\* ----------------------------------------------------- findConstituentseq
\* A slice of the log's indent is out of range: the Go runtime panics.
Panic(l, ev) ==
    /\ phase' = "panicked"
    /\ log' = l
    /\ event' = ev
    /\ UNCHANGED <<stack, ret>>

\* Entry of findConstituentseq: grow the indent, log the sequence, indent.
FindConstituentseqEntry ==
    /\ Running("findConstituentseq", "entry")
    /\ LET grown == IF log.indentLevel > log.indent
                    THEN [log EXCEPT !.indent = @ + @]
                    ELSE log
           ev    == Ev("findConstituentseq", "entry", <<>>, currentPos, log.currentLine)
       IN  IF SliceOk(grown)
           THEN /\ log' = [WriteString(grown, <<"sequence", Top.Constituentseq>>)
                             EXCEPT !.indentLevel = @ + 2]
                /\ stack' = Goto([Top EXCEPT !.pc = "loop"])
                /\ event' = ev
                /\ UNCHANGED <<ret, phase>>
           ELSE Panic(grown, ev)
    /\ UNCHANGED <<dialect, input, currentPos, model, compiledRegexes, output, err,
                   logOut, generated>>

\* The range loop of findConstituentseq: call findMany or findOne for the
\* next constituent by its last character, or log "found" and return the
\* collected Constituents when none is left.
FindConstituentseqNext ==
    /\ Running("findConstituentseq", "loop")
    /\ IF Top.k > Len(Top.Constituentseq)
       THEN LET lowered == [log EXCEPT !.indentLevel = @ - 2]
                ev      == [Ev("findConstituentseq", "found", <<>>, currentPos,
                               log.currentLine)
                              EXCEPT !.found = TRUE, !.ignored = Top.ignored,
                                     !.ignEnd = Top.ignEnd, !.level = Top.entryLevel]
            IN  IF SliceOk(lowered)
                THEN /\ log' = WriteString(lowered, <<"found">>)
                     /\ Return(Top.Constituents, ev)
                     /\ phase' = phase
                ELSE Panic(lowered, ev)
       ELSE LET constituentID == Top.Constituentseq[Top.k]
                lastChar      == constituentID[Len(constituentID)]
                base          == SubSeq(constituentID, 1, Len(constituentID) - 1)
                callee        == CASE lastChar \in {"+", "*"} -> FindManyFrame(base)
                                   [] lastChar = "?"          -> FindOneFrame(base)
                                   [] OTHER                   -> FindOneFrame(constituentID)
            IN  /\ stack' = Call([Top EXCEPT !.pc = "result"], callee)
                /\ event' = Ev("findConstituentseq", "call", constituentID, currentPos,
                               log.currentLine)
                /\ UNCHANGED <<log, ret, phase>>
    /\ UNCHANGED <<dialect, input, currentPos, model, compiledRegexes, output, err,
                   logOut, generated>>

\* FindConstituentseqResult adding the parts found whatever their Ignore flag
\* (the test of parts[0].Ignore at line 255 dropped).
FindConstituentseqResultKeepsIgnored ==
    /\ Running("findConstituentseq", "result")
    /\ LET constituentID == Top.Constituentseq[Top.k]
           lastChar      == constituentID[Len(constituentID)]
           parts         == ret
           required      == lastChar \notin {"*", "?"}
           lowered       == [log EXCEPT !.indentLevel = @ - 2]
           ev(why)       == [Ev("findConstituentseq", why, constituentID, currentPos,
                                log.currentLine) EXCEPT !.level = Top.entryLevel]
           isIgnored     == Len(parts) > 0 /\ parts[1].Ignore
       IN  IF required /\ Len(parts) < 1
           THEN IF SliceOk(lowered)
                THEN /\ log' = WriteString(lowered, <<"missing", constituentID,
                                                      log.currentLine>>)
                     /\ Return(parts, ev("missing"))
                     /\ phase' = phase
                ELSE Panic(lowered, ev("missing"))
           ELSE /\ stack' = Goto([Top EXCEPT
                        !.Constituents = IF Len(parts) > 0
                                         THEN @ \o parts ELSE @,
                        !.k = @ + 1,
                        !.pc = "loop",
                        !.ignored = @ \/ isIgnored,
                        !.ignEnd = IF isIgnored /\ parts[Len(parts)].EndPos > @
                                   THEN parts[Len(parts)].EndPos ELSE @])
                /\ event' = ev("next")
                /\ UNCHANGED <<log, ret, phase>>
    /\ UNCHANGED <<dialect, input, currentPos, model, compiledRegexes, output, err,
                   logOut, generated>>

\* findMany or findOne has returned into findConstituentseq: a missing
\* required part ends the sequence; parts that are not ignored are added.
FindConstituentseqResult ==
    /\ Running("findConstituentseq", "result")
    /\ LET constituentID == Top.Constituentseq[Top.k]
           lastChar      == constituentID[Len(constituentID)]
           parts         == ret
           required      == lastChar \notin {"*", "?"}
           lowered       == [log EXCEPT !.indentLevel = @ - 2]
           ev(why)       == [Ev("findConstituentseq", why, constituentID, currentPos,
                                log.currentLine) EXCEPT !.level = Top.entryLevel]
           isIgnored     == Len(parts) > 0 /\ parts[1].Ignore
       IN  IF required /\ Len(parts) < 1
           THEN IF SliceOk(lowered)
                THEN /\ log' = WriteString(lowered, <<"missing", constituentID,
                                                      log.currentLine>>)
                     /\ Return(parts, ev("missing"))
                     /\ phase' = phase
                ELSE Panic(lowered, ev("missing"))
           ELSE /\ stack' = Goto([Top EXCEPT
                        !.Constituents = IF Len(parts) > 0 /\ ~parts[1].Ignore
                                         THEN @ \o parts ELSE @,
                        !.k = @ + 1,
                        !.pc = "loop",
                        !.ignored = @ \/ isIgnored,
                        !.ignEnd = IF isIgnored /\ parts[Len(parts)].EndPos > @
                                   THEN parts[Len(parts)].EndPos ELSE @])
                /\ event' = ev("next")
                /\ UNCHANGED <<log, ret, phase>>
    /\ UNCHANGED <<dialect, input, currentPos, model, compiledRegexes, output, err,
                   logOut, generated>>

\* ------------------------------------------------------------------ Parse
\* errors.New("dialects error: ... unable to find root part (" + RootName + ") of " + Title)
RootError == <<"unable to find root part", dialect.RootName, dialect.Title>>

\* Parse without the early return for a root that was not found (lines 81-83 dropped).
ParseNoRootCheck ==
    /\ phase = "parsing"
    /\ stack = <<>>
    /\ \E e \in GenerateErrors :
          LET call == [model |-> model, output |-> GenerateOutput(model), err |-> e]
          IN  /\ generated' = Append(generated, call)
              /\ output' = call.output
              /\ err' = call.err
              /\ logOut' = Append(log.buffer, [indent |-> 0, text |-> <<"\n">>])
    /\ phase' = "returned"
    /\ event' = Ev("Parse", "return", dialect.RootName, 0, 1)
    /\ UNCHANGED <<dialect, input, currentPos, model, compiledRegexes, log, stack, ret>>

\* findOne(RootName) has returned into Parse: the error when no part was
\* found, else GenerateOutput's results and the log.
Parse ==
    /\ phase = "parsing"
    /\ stack = <<>>
    /\ LET parts == ret
       IN  IF Len(parts) < 1
           THEN /\ output' = <<>>
                /\ err' = RootError
                /\ logOut' = <<>>
                /\ generated' = generated
           ELSE \E e \in GenerateErrors :
                LET call == [model |-> model, output |-> GenerateOutput(model), err |-> e]
                IN  /\ generated' = Append(generated, call)
                    /\ output' = call.output
                    /\ err' = call.err
                    /\ logOut' = Append(log.buffer, [indent |-> 0, text |-> <<"\n">>])
    /\ phase' = "returned"
    /\ event' = Ev("Parse", "return", dialect.RootName, 0, 1)
    /\ UNCHANGED <<dialect, input, currentPos, model, compiledRegexes, log, stack, ret>>

\* A step of the running call: no other call's state is touched.
Sequential(step) == step /\ UNCHANGED <<self, suspended, alone>>

Next ==
    \/ Sequential(FindOneAtEnd)
    \/ Sequential(FindOneConstituents)
    \/ Sequential(FindOneHandle)
    \/ Sequential(FindOneRegex)
    \/ Sequential(FindOneNeither)
    \/ Sequential(FindManyLoop)
    \/ Sequential(FindManyResult)
    \/ Sequential(FindConstituentsNext)
    \/ Sequential(FindConstituentsResult)
    \/ Sequential(FindConstituentseqEntry)
    \/ Sequential(FindConstituentseqNext)
    \/ Sequential(FindConstituentseqResult)
    \/ Sequential(Parse)

Spec == Init /\ [][Next]_vars

\* The pattern of a terminal matches the empty string.
MatchesEmpty(partDefinition) ==
    /\ partDefinition.Regex # <<>>
    /\ FindStringSubmatch(MustCompile(partDefinition.Regex), <<>>) # Nil

\* The dialects none of whose terminals matches the empty string (none of the
\* dialects is left-recursive).
ProgressDialects ==
    {d \in Dialects :
        \A name \in DOMAIN d.PartDefinitions : ~MatchesEmpty(d.PartDefinitions[name])}

ProgressInit == Init /\ dialect \in ProgressDialects

\* Parse is one sequential call: while it has a next step it takes it.
ProgressSpec == ProgressInit /\ [][Next]_vars /\ WF_vars(Next)

\* ------------------------------------------------------- concurrent calls
\* The state of the running call of Parse: its Parser, its Log, its stack and
\* its results.
Parser ==
    [dialect |-> dialect, input |-> input, currentPos |-> currentPos,
     model |-> model, compiledRegexes |-> compiledRegexes, log |-> log,
     stack |-> stack, ret |-> ret, phase |-> phase, output |-> output,
     err |-> err, logOut |-> logOut, generated |-> generated, event |-> event]

\* The state Parse constructs at entry: a new model and dialect, an empty
\* compiledRegexes map, a cursor of its own at 0 and a new Log.
NewParser(d, i) ==
    [dialect |-> d, input |-> i, currentPos |-> 0, model |-> <<>>,
     compiledRegexes |-> <<>>,
     log |-> [buffer |-> <<>>, indent |-> IndentInit, indentLevel |-> 0, currentLine |-> 1],
     stack |-> <<FindOneFrame(d.RootName)>>, ret |-> Nil, phase |-> "parsing",
     output |-> <<>>, err |-> <<>>, logOut |-> <<>>, generated |-> <<>>,
     event |-> Ev("Parse", "call", d.RootName, 0, 1)]

\* The scheduler runs the call whose state is p.
Resume(p) ==
    /\ dialect' = p.dialect
    /\ input' = p.input
    /\ currentPos' = p.currentPos
    /\ model' = p.model
    /\ compiledRegexes' = p.compiledRegexes
    /\ log' = p.log
    /\ stack' = p.stack
    /\ ret' = p.ret
    /\ phase' = p.phase
    /\ output' = p.output
    /\ err' = p.err
    /\ logOut' = p.logOut
    /\ generated' = p.generated
    /\ event' = p.event

\* What a call has produced: how it ended, output and log returned, the
\* parts found, the final cursor, model, cache and Log, and the error Parse
\* made itself (the error of GenerateOutput is the dialectable's own choice).
Result(p) ==
    [phase |-> p.phase, output |-> p.output, logOut |-> p.logOut, ret |-> p.ret,
     currentPos |-> p.currentPos, model |-> p.model,
     compiledRegexes |-> p.compiledRegexes, log |-> p.log,
     err |-> IF p.generated = <<>> THEN p.err ELSE <<>>]

\* The input of the second call.
OtherInput == <<"a", "b">>

\* The call that ran alone has ended: its result is kept, and two calls of
\* Parse are started: A with the same dialectable and input, and B with the
\* same dialectable and OtherInput.
Spawn ==
    /\ self = "alone"
    /\ phase # "parsing"
    /\ alone' = Result(Parser)
    /\ Resume(NewParser(dialect, input))
    /\ suspended' = NewParser(dialect, OtherInput)
    /\ self' = "A"

\* A scheduler whose switch leaves the cursor in place: both calls use one cursor.
SwitchSharedCursor ==
    /\ self \in {"A", "B"}
    /\ phase # "panicked"
    /\ suspended.phase = "parsing"
    /\ Resume([suspended EXCEPT !.currentPos = currentPos])
    /\ suspended' = Parser
    /\ self' = IF self = "A" THEN "B" ELSE "A"
    /\ UNCHANGED alone

\* The scheduler suspends the running call between two of its steps and
\* runs the other one, which has not ended. A panic of the running call is
\* not recovered and ends the program, the other call with it.
Switch ==
    /\ self \in {"A", "B"}
    /\ phase # "panicked"
    /\ suspended.phase = "parsing"
    /\ Resume(suspended)
    /\ suspended' = Parser
    /\ self' = IF self = "A" THEN "B" ELSE "A"
    /\ UNCHANGED alone

ConcurrentNext ==
    \/ Next
    \/ Spawn
    \/ Switch

ConcurrentSpec == Init /\ [][ConcurrentNext]_vars

\* ================================================================ claims
\* The findOne steps taken at entry, before any constituent is looked for.
Declined  == event.op = "findOne" /\ event.why = "atEnd"

Attempted == event.op = "findOne"
             /\ event.why \in {"attempt", "noMatch", "invalid", "matched", "undefined"}

\* C1: when findOne returns no match because none of the rule's alternative
\* sequences matched, the cursor on return equals its value at entry to
\* that findOne call, however much input the failed alternatives consumed.
C1_FailedRuleRestoresCursor ==
    (event.op = "findOne" /\ event.why = "noConstituents")
        => currentPos = event.entryPos

\* A rule has failed after one of its alternatives had consumed input.
C1_Witness ==
    /\ event.op = "findOne"
    /\ event.why = "noConstituents"
    /\ event.adv > 0
    /\ currentPos = event.entryPos

\* C2: when a non-terminal's Handler returns false, findOne returns no match
\* with the cursor and the line counter at their values at entry.
C2_VetoRestoresCursor ==
    (event.op = "findOne" /\ event.why = "veto")
        => /\ ret = Nil
           /\ currentPos = event.entryPos
           /\ log.currentLine = event.entryLine

\* C3: findConstituents returns the result of the first declared alternative
\* whose sequence matched (every exactly-one and one-or-more constituent
\* found), and tries an alternative only if every earlier one did not match.
C3_OrderedChoice ==
    /\ (event.op = "findConstituents" /\ event.why \in {"accepted", "exhausted"})
          => event.alt = event.firstFound
    /\ (event.op = "findConstituents" /\ event.why = "try")
          => event.firstFound = 0

\* C4: a sequence is reported to the enclosing rule as matched (a non-empty
\* slice) if and only if every exactly-one and one-or-more constituent was
\* found; constituents under ? or * that match nothing never make it fail.
C4_QuantifierSemantics ==
    (event.op = "findConstituentseq" /\ event.why \in {"found", "missing"})
        => ((Len(ret) > 0) <=> event.found)

\* C5: after a sequence in which an ignored constituent matched, the input that
\* constituent consumed stays consumed and no ignored Part is among the
\* parts handed to the parent.
C5_IgnorePropagation ==
    (/\ event.op = "findConstituents"
     /\ event.why \in {"accepted", "rejected"}
     /\ event.found
     /\ event.ignored)
        => /\ currentPos >= event.ignEnd
           /\ \A i \in 1..Len(ret) : ~ret[i].Ignore

\* C6: when ValidateMatch rejects a match, findOne returns no match with the
\* cursor and the line counter unchanged and the parse goes on, at every
\* nesting depth, with or without a message.
C6_ValidatorRejectionRecoverable ==
    (event.op = "findOne" /\ event.why = "invalid")
        => /\ phase = "parsing"
           /\ ret = Nil
           /\ currentPos = event.entryPos
           /\ log.currentLine = event.entryLine

\* C7: Parse calls GenerateOutput if and only if the root rule was found: with
\* no root part it returns an empty output and the error naming the root
\* rule and the dialect title, and GenerateOutput is never called; else it
\* calls GenerateOutput once with the model and returns its output and error.
C7_GenerateOutputIffRootFound ==
    /\ phase # "returned" => generated = <<>>
    /\ phase = "returned" =>
          IF Len(ret) < 1
          THEN /\ generated = <<>>
               /\ output = <<>>
               /\ err = <<"unable to find root part", dialect.RootName, dialect.Title>>
          ELSE /\ Len(generated) = 1
               /\ generated[1].model = model
               /\ output = generated[1].output
               /\ err = generated[1].err

\* Parse has returned what GenerateOutput returned, an error included.
C7_Witness ==
    /\ phase = "returned"
    /\ Len(ret) >= 1
    /\ Len(generated) = 1
    /\ err = <<"render error">>
    /\ output = generated[1].output

\* C8: GenerateOutput is called only when the cursor is at len(input).
C8_OutputOnlyAfterFullParse ==
    generated # <<>> => currentPos = Len(input)

\* C9: findOne declines to attempt a rule exactly when cursor >= len(input).
C9_EndOfInputBoundary ==
    (Declined \/ Attempted) => (Declined <=> event.entryPos >= Len(input))

\* C10: once the cursor is at len(input) no rule attempts a further match, so
\* a repetition (findMany) collects no part found there and its loop ends.
C10_RepetitionStopsAtEnd ==
    (event.op = "findMany" /\ event.why = "more") => ret[1].StartPos # Len(input)

\* findOne has returned a Part.
Found == event.op = "findOne" /\ event.why \in {"found", "matched"}

\* C11: when findOne returns a Part whose definition has a Handler, the Handler
\* has been called exactly once for that occurrence, for a non-terminal and
\* for a terminal alike.
C11_HandlerCalledForEveryPart ==
    (Found /\ PartDefinition(event.name).Handler # "nil") => event.called = 1

\* C12: a terminal Part starts at the cursor's entry offset, ends at the
\* cursor on return, StartPos + len(matched text), and spans the matched
\* text in the input.
C12_TerminalAnchoredAtCursor ==
    (event.op = "findOne" /\ event.why = "matched")
        => /\ ret[1].StartPos = event.entryPos
           /\ ret[1].EndPos = ret[1].StartPos + Len(event.text)
           /\ ret[1].EndPos = currentPos
           /\ SubSeq(input, ret[1].StartPos + 1, ret[1].EndPos) = event.text

\* C13: every alternative sequence of findConstituents starts with the cursor
\* and the line counter at their values at entry to findConstituents, and
\* both are back there when the last alternative has failed.
C13_AlternativesStartAtEntry ==
    (event.op = "findConstituents" /\ event.why \in {"try", "exhausted"})
        => /\ currentPos = event.entryPos
           /\ log.currentLine = event.entryLine

\* A later alternative starts after an earlier one had consumed input.
C13_Witness ==
    /\ event.op = "findConstituents"
    /\ event.why = "try"
    /\ event.alt > 1
    /\ event.adv > 0
    /\ currentPos = event.entryPos
    /\ log.currentLine = event.entryLine

\* C14: every Part in a parent's Constituents has its Parent field referring
\* to that parent, and the root Part has no parent.
C14_ParentLinks ==
    (event.op = "findOne" /\ event.why = "found")
        => /\ \A i \in 1..Len(ret[1].Constituents) :
                 ret[1].Constituents[i].Parent = PartRef(ret[1])
           /\ (stack = <<>> => ret[1].Parent = Nil)

\* C15: a Part returned by findOne for a terminal has the (formatted) match as
\* its Value and no Constituents; one returned for a non-terminal has no
\* Value and a non-empty Constituents list of Parts whose Ignore is false.
C15_PartShapes ==
    Found =>
        LET part           == ret[1]
            partDefinition == PartDefinition(event.name)
        IN  IF Len(partDefinition.Constituents) > 0
            THEN /\ part.Value = <<>>
                 /\ part.Constituents # <<>>
                 /\ \A i \in 1..Len(part.Constituents) : ~part.Constituents[i].Ignore
            ELSE /\ part.Constituents = <<>>
                 /\ part.Value = IF partDefinition.FormatMatch # "nil"
                                 THEN FormatMatch(partDefinition.FormatMatch, <<event.text>>)
                                 ELSE event.text

\* A non-terminal Part is returned whose sequence had matched an ignored part.
C15_Witness ==
    /\ event.op = "findOne"
    /\ event.why = "found"
    /\ event.ignored
    /\ ret[1].Constituents # <<>>
    /\ \A i \in 1..Len(ret[1].Constituents) : ~ret[1].Constituents[i].Ignore

\* C17: every slice indent[:indentLevel] taken to write a log line is in
\* range (no write panics, and every line written has an indent between 0
\* and len(indent)), and findConstituentseq returns with indentLevel at its
\* value at entry.
C17_IndentLevelInRange ==
    /\ phase # "panicked"
    /\ \A n \in 1..Len(log.buffer) :
          log.buffer[n].indent >= 0 /\ log.buffer[n].indent <= log.indent
    /\ (event.op = "findConstituentseq" /\ event.why \in {"found", "missing"})
          => log.indentLevel = event.level

\* C19: the log's line counter is 1 plus the number of newlines in
\* input[0:cursor], in every state.
C19_LineCounterInStep ==
    log.currentLine = 1 + CountNewlines(SubSeq(input, 1, currentPos))

\* The non-terminal Parts with a Handler in the tree rooted at part, as the
\* records an accepting Handler leaves in the model.
RECURSIVE HandledParts(_)
HandledParts(part) ==
    LET partDefinition == PartDefinition(part.Name)
        own == IF Len(partDefinition.Constituents) > 0 /\ partDefinition.Handler # "nil"
               THEN <<[Name |-> part.Name, StartPos |-> part.StartPos]>>
               ELSE <<>>
        RECURSIVE below(_)
        below(n) == IF n = 0 THEN <<>>
                    ELSE below(n - 1) \o HandledParts(part.Constituents[n])
    IN  own \o below(Len(part.Constituents))

Count(seq, x) == Cardinality({n \in 1..Len(seq) : seq[n] = x})

Elements(seq) == {seq[n] : n \in 1..Len(seq)}

\* C18 as stated: when Parse succeeds, the Handler invocations that returned
\* true correspond one-to-one to the non-terminal Parts with handlers in the
\* final parse tree.
C18_HandlersOnlyOnCommitted ==
    (phase = "returned" /\ Len(ret) >= 1)
        => \A x \in Elements(model) \cup Elements(HandledParts(ret[1])) :
              Count(model, x) = Count(HandledParts(ret[1]), x)

\* C18 as amended: when Parse succeeds, every non-terminal Part with a Handler
\* in the final parse tree has its own Handler invocation that returned
\* true; further invocations, made on Parts of abandoned alternatives, may
\* remain in the model.
C18_CommittedPartsHandled ==
    (phase = "returned" /\ Len(ret) >= 1)
        => \A x \in Elements(HandledParts(ret[1])) :
              Count(HandledParts(ret[1]), x) <= Count(model, x)

\* Parse has succeeded with a Part in the tree handled once more than it occurs.
C18_Witness ==
    /\ phase = "returned"
    /\ Len(ret) >= 1
    /\ \E x \in Elements(HandledParts(ret[1])) :
          Count(model, x) > Count(HandledParts(ret[1]), x)

\* C20: with no terminal matching the empty string, every findOne that returns
\* a Part leaves the cursor strictly past its value at entry, and Parse
\* ends: no findMany loop goes on for ever.
C20_Progress ==
    /\ [](Found => currentPos > event.entryPos)
    /\ <>(phase # "parsing")

\* A findMany loop has ended after collecting several parts.
C20_Witness ==
    /\ event.op = "findMany"
    /\ event.why = "return"
    /\ Len(ret) >= 2
    /\ ret[2].StartPos > ret[1].StartPos

\* The state of call A while both calls run.
CallA == IF self = "A" THEN Parser ELSE suspended

====
